---- MODULE Spec2Model ----
(***************************************************************************)
(* Model of scripts/pinterest_downloader.py: the command-line entry point, *)
(* download_pinterest_video, get_video_and_audio_urls, download_file and   *)
(* merge_video_audio.  The program is sequential; the environment (HTTP    *)
(* responses, document contents, the file system's and the external tool's *)
(* outcomes) is drawn nondeterministically at the step that consults it.   *)
(***************************************************************************)
EXTENDS Integers, Sequences, FiniteSets, TLC

\* ---------------------------------------------------------------- bounds
\* longest list of lines of a sub-manifest (audio or one quality)
MaxSubLines == 2
\* longest list of lines of the top-level manifest that Tier 3 scans
MaxPlaylistLines == 2
\* most chunks a response body is streamed in
MaxChunks == 2
\* largest len(sys.argv) tried
MaxArgc == 4

\* longest text of the title element
MaxText == 2
\* most comma-separated items of the keywords content
MaxKeywords == 2

\* ---------------------------------------------------------------- values
None == "None"

\* outcome of one HTTP request: a status code, or the call raising
Responses == {"200", "404", "raise"}

\* quality_order, line 56
quality_order == <<"720w", "540w", "360w", "240w">>

Quality == {quality_order[i] : i \in 1..Len(quality_order)}

\* the three paths the orchestrator builds: <ts>.mp4, <ts>_video.mp4,
\* <ts>_audio.mp4
File == {"final_filename", "video_filename", "audio_filename"}

\* what is at a path: nothing, a file that was there before the run, a file
\* opened for writing with nothing written, a file with bytes written
Content == {"absent", "old", "empty", "data"}

\* iter_content(1024): a chunk is empty or holds up to 1024 bytes
ChunkSize == 1024

SeqsUpTo(S, n) == UNION {[1..k -> S] : k \in 0..n}

\* lines of a sub-manifest: "segment" ends with the segment suffix (.cmfa in
\* the audio sub-manifest, .cmfv in a quality's), "other" does not
SubManifests == SeqsUpTo({"segment", "other"}, MaxSubLines)

\* response.text of the top-level manifest, by what the code reads of it:
\* whether URI="..._audio.m3u8" occurs, which _<quality>.m3u8 markers occur,
\* and per line whether it starts with http and contains .mp4
Playlists ==
    [audio_uri : BOOLEAN,
     markers : SUBSET Quality,
     lines : SeqsUpTo({"http_mp4", "other"}, MaxPlaylistLines)]

NoPlaylist == [audio_uri |-> FALSE, markers |-> {}, lines |-> <<>>]

\* a request the resolver issues: requests.head or requests.get, the variable
\* holding the URL, and the quality the URL was built for ("-" if none)
Req(op, url, quality) == [op |-> op, url |-> url, quality |-> quality]

HeadSimple == Req("HEAD", "simple_convert_url", "-")

GetManifest == Req("GET", "m3u8_url", "-")

GetAudioPlaylist == Req("GET", "audio_playlist_url", "-")

HeadAudioFile == Req("HEAD", "audio_file_url", "-")

GetStream(quality) == Req("GET", "stream_url", quality)

HeadVideoFile(quality) == Req("HEAD", "video_file_url", quality)

HeadMp4Line == Req("HEAD", "line", "-")

\* ---------------------------------------------------------------- state
VARIABLES
    pc,               \* position in the program
    argc,             \* len(sys.argv)
    page_url,         \* "short" (contains https://pin.it/) or "canonical"
    extract_url,      \* None, "" , "direct" or "m3u8" (ends with .m3u8)
    fs,               \* File -> Content
    out,              \* the JSON objects printed, in order
    exitStatus,       \* "running", "0" or "1"
    error,            \* message of the exception that reached __main__
    result,           \* filePath returned by download_pinterest_video
    reqs,             \* requests issued by the current resolver call
    simple_status,    \* the answer to Tier 1's existence check
    playlist_content, \* the fetched top-level manifest
    lines,            \* lines the running for loop has still to visit
    qi,               \* index into quality_order of the quality loop
    audio_url,        \* resolver local
    video_url,        \* resolver local
    audioChain,       \* how the audio chain of Tier 2 ended
    ret,              \* what get_video_and_audio_urls returned
    retVia,           \* the return statement it returned through
    streams,          \* video_url, audio_url, method of the orchestrator
    dl,               \* the last download_file call
    dlLog,            \* destinations of the download_file calls, in order
    mg,               \* the merge_video_audio call
    gvCalled,         \* whether get_video_and_audio_urls was called
    soup,             \* the document given to extract_pinterest_metadata
    pin_metadata      \* what extract_pinterest_metadata returned

metaVars == <<soup, pin_metadata>>
mainVars == <<argc, metaVars, out, exitStatus, error, result>>
gvVars == <<reqs, simple_status, playlist_content, lines, qi, audio_url, video_url, audioChain, ret, retVia>>
dpvVars == <<page_url, extract_url, streams, dl, dlLog, mg, gvCalled>>
vars == <<pc, fs, mainVars, gvVars, dpvVars>>

NoRet == [video_url |-> None, audio_url |-> None, method |-> "none"]

Tuple3(v, a, m) == [video_url |-> v, audio_url |-> a, method |-> m]

\* ------------------------------------------- get_video_and_audio_urls
\* Tier 1 without its return statement: the call always goes on to Tier 2
Tier1Returns_Never(status) == FALSE

\* line 26: Tier 1 returns at once on this status
Tier1Returns(status) == status = "200"

\* an except clause that falls back on the Tier 1 URL
ExceptResult_FallsBack == Tuple3("simple_convert_url", None, "simple")

\* lines 94-95: the except clause
ExceptResult == Tuple3(None, None, "failed")

\* result assembly without its else branch: the locals are returned as
\* they are
AssembleResult_NoElse(v, a) ==
    Tuple3(v, a, IF a # None THEN "hls_separate" ELSE "hls_video_only")

\* lines 88-92: result assembly
AssembleResult(v, a) ==
    IF v # None
    THEN Tuple3(v, a, IF a # None THEN "hls_separate" ELSE "hls_video_only")
    ELSE Tuple3(None, None, "failed")

\* an audio chain whose end skips the video extraction
AfterAudio_SkipsVideo == "gv_assemble"

\* lines 40, 44, 46-54: where control goes when the audio chain ends, with or
\* without an audio URL: on to the video extraction
AfterAudio == "gv_video_loop"

\* a quality loop that breaks after the first quality it attempts
AfterMiss_Breaks(i) == Len(quality_order) + 1

\* lines 58, 76-77: the quality loop breaks only when video_url is set, so a
\* quality that yielded nothing is followed by the next one in quality_order
AfterMiss(i) == i + 1

\* lines 76-80: after the quality loop, Tier 3 runs only if video_url is unset
AfterVideoLoop(v) == IF v = None THEN "gv_mp4_scan" ELSE "gv_assemble"

\* a Tier 3 that drops the audio URL when it finds the video URL
AudioAfterTier3_Drops(a) == None

\* lines 85-86: Tier 3 sets video_url only; audio_url keeps what Tier 2 found
AudioAfterTier3(a) == a

LeaveVideoLoop(v) ==
    /\ pc' = AfterVideoLoop(v)
    /\ lines' = IF AfterVideoLoop(v) = "gv_mp4_scan"
                THEN playlist_content.lines ELSE <<>>

GvReturn(r, via) ==
    /\ ret' = r
    /\ retVia' = via
    /\ pc' = "gv_return"

GvRaise == GvReturn(ExceptResult, "except")

\* lines 24-27
Tier1 ==
    /\ pc = "gv_tier1"
    /\ reqs' = reqs \cup {HeadSimple}
    /\ \E response \in Responses :
         /\ simple_status' = response
         /\ IF response = "raise" THEN GvRaise
            ELSE IF Tier1Returns(response)
                 THEN GvReturn(Tuple3("simple_convert_url", None, "simple"), "line 27")
                 ELSE /\ pc' = "gv_manifest"
                      /\ UNCHANGED <<ret, retVia>>
    /\ UNCHANGED <<fs, mainVars, dpvVars, playlist_content, lines, qi, audio_url,
                   video_url, audioChain>>

\* lines 30-40: fetch the manifest, start the audio chain
FetchManifest ==
    /\ pc = "gv_manifest"
    /\ reqs' = reqs \cup {GetManifest}
    /\ \E response \in Responses :
         IF response = "raise"
         THEN GvRaise /\ UNCHANGED <<playlist_content, audioChain>>
         ELSE IF response # "200"
         THEN /\ GvReturn(Tuple3(None, None, "failed"), "line 32")
              /\ UNCHANGED <<playlist_content, audioChain>>
         ELSE \E content \in Playlists :
              /\ playlist_content' = content
              /\ IF content.audio_uri
                 THEN pc' = "gv_audio_get" /\ audioChain' = "not_run"
                 ELSE pc' = AfterAudio /\ audioChain' = "no_uri"
              /\ UNCHANGED <<ret, retVia>>
    /\ UNCHANGED <<fs, mainVars, dpvVars, simple_status, lines, qi, audio_url, video_url>>

\* lines 41-46: fetch the audio sub-manifest
FetchAudioPlaylist ==
    /\ pc = "gv_audio_get"
    /\ reqs' = reqs \cup {GetAudioPlaylist}
    /\ \E audio_response \in Responses :
         IF audio_response = "raise"
         THEN GvRaise /\ UNCHANGED <<lines, audioChain>>
         ELSE IF audio_response # "200"
         THEN /\ pc' = AfterAudio
              /\ audioChain' = "fetch_failed"
              /\ UNCHANGED <<lines, ret, retVia>>
         ELSE \E audio_content \in SubManifests :
              /\ lines' = audio_content
              /\ audioChain' = "no_segment"
              /\ pc' = "gv_audio_scan"
              /\ UNCHANGED <<ret, retVia>>
    /\ UNCHANGED <<fs, mainVars, dpvVars, simple_status, playlist_content, qi, audio_url, video_url>>

\* lines 46-52: one iteration of the loop over the audio sub-manifest's lines
AudioScan ==
    /\ pc = "gv_audio_scan"
    /\ IF lines = <<>>
       THEN /\ pc' = AfterAudio
            /\ UNCHANGED <<reqs, lines, audio_url, audioChain, ret, retVia>>
       ELSE IF Head(lines) # "segment"
       THEN /\ lines' = Tail(lines)
            /\ UNCHANGED <<pc, reqs, audio_url, audioChain, ret, retVia>>
       ELSE /\ reqs' = reqs \cup {HeadAudioFile}
            /\ \E check_response \in Responses :
                 IF check_response = "raise"
                 THEN GvRaise /\ UNCHANGED <<lines, audio_url, audioChain>>
                 ELSE IF check_response = "200"
                 THEN /\ audio_url' = "audio_file_url"
                      /\ audioChain' = "found"
                      /\ lines' = <<>>
                      /\ pc' = AfterAudio
                      /\ UNCHANGED <<ret, retVia>>
                 ELSE /\ lines' = Tail(lines)
                      /\ audioChain' = "check_failed"
                      /\ UNCHANGED <<pc, audio_url, ret, retVia>>
    /\ UNCHANGED <<fs, mainVars, dpvVars, simple_status, playlist_content, qi, video_url>>

\* lines 58-66, 76-80: the head of the quality loop
VideoLoop ==
    /\ pc = "gv_video_loop"
    /\ IF qi > Len(quality_order)
       THEN /\ LeaveVideoLoop(video_url)
            /\ UNCHANGED <<reqs, qi, ret, retVia>>
       ELSE IF quality_order[qi] \notin playlist_content.markers
       THEN /\ qi' = qi + 1
            /\ UNCHANGED <<pc, reqs, lines, ret, retVia>>
       ELSE /\ reqs' = reqs \cup {GetStream(quality_order[qi])}
            /\ \E stream_response \in Responses :
                 IF stream_response = "raise"
                 THEN GvRaise /\ UNCHANGED <<lines, qi>>
                 ELSE IF stream_response # "200"
                 THEN /\ qi' = AfterMiss(qi)
                      /\ UNCHANGED <<pc, lines, ret, retVia>>
                 ELSE \E stream_content \in SubManifests :
                      /\ lines' = stream_content
                      /\ pc' = "gv_video_scan"
                      /\ UNCHANGED <<qi, ret, retVia>>
    /\ UNCHANGED <<fs, mainVars, dpvVars, simple_status, playlist_content, audio_url, video_url,
                   audioChain>>

\* lines 68-77: one iteration of the loop over a quality's sub-manifest lines
VideoScan ==
    /\ pc = "gv_video_scan"
    /\ IF lines = <<>>
       THEN /\ qi' = AfterMiss(qi)
            /\ pc' = "gv_video_loop"
            /\ UNCHANGED <<reqs, lines, video_url, ret, retVia>>
       ELSE IF Head(lines) # "segment"
       THEN /\ lines' = Tail(lines)
            /\ UNCHANGED <<pc, reqs, qi, video_url, ret, retVia>>
       ELSE /\ reqs' = reqs \cup {HeadVideoFile(quality_order[qi])}
            /\ \E check_response \in Responses :
                 IF check_response = "raise"
                 THEN GvRaise /\ UNCHANGED <<lines, qi, video_url>>
                 ELSE IF check_response = "200"
                 THEN /\ video_url' = "video_file_url"
                      /\ LeaveVideoLoop("video_file_url")
                      /\ UNCHANGED <<qi, ret, retVia>>
                 ELSE /\ lines' = Tail(lines)
                      /\ UNCHANGED <<pc, qi, video_url, ret, retVia>>
    /\ UNCHANGED <<fs, mainVars, dpvVars, simple_status, playlist_content, audio_url, audioChain>>

\* lines 81-86: one iteration of Tier 3's loop over the manifest's lines
Mp4Scan ==
    /\ pc = "gv_mp4_scan"
    /\ IF lines = <<>>
       THEN /\ pc' = "gv_assemble"
            /\ UNCHANGED <<reqs, lines, audio_url, video_url, ret, retVia>>
       ELSE IF Head(lines) # "http_mp4"
       THEN /\ lines' = Tail(lines)
            /\ UNCHANGED <<pc, reqs, audio_url, video_url, ret, retVia>>
       ELSE /\ reqs' = reqs \cup {HeadMp4Line}
            /\ \E check_response \in Responses :
                 IF check_response = "raise"
                 THEN GvRaise /\ UNCHANGED <<lines, audio_url, video_url>>
                 ELSE IF check_response = "200"
                 THEN /\ video_url' = "line"
                      /\ audio_url' = AudioAfterTier3(audio_url)
                      /\ lines' = <<>>
                      /\ pc' = "gv_assemble"
                      /\ UNCHANGED <<ret, retVia>>
                 ELSE /\ lines' = Tail(lines)
                      /\ UNCHANGED <<pc, audio_url, video_url, ret, retVia>>
    /\ UNCHANGED <<fs, mainVars, dpvVars, simple_status, playlist_content, qi, audioChain>>

\* lines 88-92
Assemble ==
    /\ pc = "gv_assemble"
    /\ GvReturn(AssembleResult(video_url, audio_url), "line 88")
    /\ UNCHANGED <<fs, mainVars, dpvVars, simple_status, reqs, playlist_content, lines, qi,
                   audio_url, video_url, audioChain>>

\* ------------------------------------------------------- download_file
\* what the environment does to one download_file call: the response to the
\* GET (or the GET raising), whether reading Content-Length and opening the
\* file raise, the chunks iter_content yields, whether the stream then ends
\* or raises, and whether os.remove raises
DownloadEnvs ==
    [response : Responses,
     open : {"ok", "raise"},
     chunks : SeqsUpTo({0, ChunkSize}, MaxChunks),
     stream : {"end", "raise"},
     remove : {"ok", "raise"}]

NoDownloadEnv ==
    [response |-> "raise", open |-> "ok", chunks |-> <<>>, stream |-> "end",
     remove |-> "ok"]

NoDownload == [filename |-> None, env |-> NoDownloadEnv, ok |-> FALSE]

\* lines 152-156: bytes_written after the chunks were consumed
RECURSIVE BytesWritten(_)
BytesWritten(chunks) ==
    IF chunks = <<>> THEN 0 ELSE Head(chunks) + BytesWritten(Tail(chunks))

\* download_file opening the destination before it looks at the status
DownloadFile_OpensFirst(f, filename, env) ==
    IF env.response = "raise" \/ env.open = "raise" THEN [ok |-> FALSE, fs |-> f]
    ELSE IF env.response # "200"
    THEN [ok |-> FALSE, fs |-> [f EXCEPT ![filename] = "empty"]]
    ELSE [ok |-> env.stream = "end" /\ BytesWritten(env.chunks) # 0,
          fs |-> [f EXCEPT ![filename] =
                     IF BytesWritten(env.chunks) # 0 THEN "data"
                     ELSE IF env.stream = "end" /\ env.remove = "ok" THEN "absent"
                     ELSE "empty"]]

\* download_file without the removal of the empty file
DownloadFile_KeepsEmpty(f, filename, env) ==
    IF env.response # "200" \/ env.open = "raise" THEN [ok |-> FALSE, fs |-> f]
    ELSE [ok |-> env.stream = "end" /\ BytesWritten(env.chunks) # 0,
          fs |-> [f EXCEPT ![filename] =
                     IF BytesWritten(env.chunks) = 0 THEN "empty" ELSE "data"]]

\* lines 142-165: the value returned and the file system left behind
DownloadFile(f, filename, env) ==
    IF env.response # "200" THEN [ok |-> FALSE, fs |-> f]
    ELSE IF env.open = "raise" THEN [ok |-> FALSE, fs |-> f]
    ELSE LET bytes_written == BytesWritten(env.chunks)
             g == [f EXCEPT ![filename] =
                       IF bytes_written = 0 THEN "empty" ELSE "data"]
         IN  IF env.stream = "raise" THEN [ok |-> FALSE, fs |-> g]
             ELSE IF bytes_written = 0
             THEN IF env.remove = "raise"
                  THEN [ok |-> FALSE, fs |-> g]
                  ELSE [ok |-> FALSE, fs |-> [g EXCEPT ![filename] = "absent"]]
             ELSE [ok |-> TRUE, fs |-> g]

\* whether an exception was raised (and swallowed) inside the call
DownloadRaised(env) ==
    \/ env.response = "raise"
    \/ env.response = "200" /\ env.open = "raise"
    \/ env.response = "200" /\ env.open = "ok" /\ env.stream = "raise"
    \/ /\ env.response = "200" /\ env.open = "ok" /\ env.stream = "end"
       /\ BytesWritten(env.chunks) = 0 /\ env.remove = "raise"

\* --------------------------------------------------- merge_video_audio
\* what the environment does to one merge_video_audio call: the exit code of
\* "ffmpeg -version" and of the mux command (or subprocess.run raising),
\* whether a failing mux command left an output file behind, and whether the
\* two os.remove calls raise
MergeEnvs ==
    [probe : {"0", "1", "raise"},
     mux : {"0", "1", "raise"},
     output : BOOLEAN,
     rm_video : {"ok", "raise"},
     rm_audio : {"ok", "raise"}]

NoMergeEnv ==
    [probe |-> "raise", mux |-> "raise", output |-> FALSE, rm_video |-> "ok",
     rm_audio |-> "ok"]

NoMerge == [called |-> FALSE, env |-> NoMergeEnv, ok |-> FALSE]

\* a version probe whose exit code is not looked at: the mux command is run
\* whenever the probe could be launched
MuxInvoked_IgnoresExitCode(env) == env.probe # "raise"

\* lines 106-108, 138: line 129 is reached, the mux command is run, only
\* when the version probe was launched and exited 0
MuxInvoked(env) == env.probe = "0"

\* merge_video_audio deleting its inputs whatever the exit code of the mux
MergeVideoAudio_AlwaysDeletes(f, video_file, audio_file, output_file, env) ==
    IF env.probe # "0" \/ env.mux = "raise" THEN [ok |-> FALSE, fs |-> f]
    ELSE [ok |-> env.mux = "0",
          fs |-> [f EXCEPT ![output_file] = "data", ![video_file] = "absent",
                           ![audio_file] = "absent"]]

\* merge_video_audio never deleting its inputs
MergeVideoAudio_NeverDeletes(f, video_file, audio_file, output_file, env) ==
    IF env.probe # "0" \/ env.mux = "raise" THEN [ok |-> FALSE, fs |-> f]
    ELSE [ok |-> env.mux = "0", fs |-> [f EXCEPT ![output_file] = "data"]]

\* lines 103-139: the value returned and the file system left behind
MergeVideoAudio(f, video_file, audio_file, output_file, env) ==
    IF ~MuxInvoked(env) THEN [ok |-> FALSE, fs |-> f]
    ELSE IF env.mux = "raise" THEN [ok |-> FALSE, fs |-> f]
    ELSE IF env.mux # "0"
    THEN [ok |-> FALSE,
          fs |-> IF env.output THEN [f EXCEPT ![output_file] = "data"] ELSE f]
    ELSE LET g == [f EXCEPT ![output_file] = "data"]
         IN  IF env.rm_video = "raise" THEN [ok |-> FALSE, fs |-> g]
             ELSE IF env.rm_audio = "raise"
             THEN [ok |-> FALSE, fs |-> [g EXCEPT ![video_file] = "absent"]]
             ELSE [ok |-> TRUE,
                   fs |-> [g EXCEPT ![video_file] = "absent",
                                    ![audio_file] = "absent"]]

\* ------------------------------------------ extract_pinterest_metadata
\* a string is the sequence of its characters; an attribute or element that
\* may be missing is a record saying whether it is there and what it holds
Absent == [some |-> FALSE, val |-> <<>>]

Some(t) == [some |-> TRUE, val |-> t]

Opt(S) == {Absent} \cup {Some(t) : t \in S}

\* Python truthiness of such a value: there, and not the empty string
TruthyText(o) == o.some /\ o.val # <<>>

\* str.strip(), line 190 and line 207
RECURSIVE LStrip(_)
LStrip(t) == IF t # <<>> /\ Head(t) = " " THEN LStrip(Tail(t)) ELSE t

RECURSIVE RStrip(_)
RStrip(t) ==
    IF t # <<>> /\ t[Len(t)] = " " THEN RStrip(SubSeq(t, 1, Len(t) - 1)) ELSE t

Strip(t) == RStrip(LStrip(t))

\* the items content.split(",") gives for a keywords content
KeywordItems == {<<>>, <<" ">>, <<"k">>, <<" ", "k", " ">>}

\* the parsed page, by what lines 176-207 read of it: the content of the
\* first og:title, twitter:title, og:description, description and keywords
\* meta elements, the text of the first title element
Soups ==
    [og_title : Opt({<<>>, <<"o">>}),
     twitter_title : Opt({<<>>, <<"t">>}),
     title : Opt(SeqsUpTo({" ", "e"}, MaxText)),
     og_description : Opt({<<>>, <<"o">>}),
     description : Opt({<<>>, <<"d">>}),
     keywords : Opt(SeqsUpTo(KeywordItems, MaxKeywords) \ {<<>>})]

NoSoup ==
    [og_title |-> Absent, twitter_title |-> Absent, title |-> Absent,
     og_description |-> Absent, description |-> Absent, keywords |-> Absent]

NoMetadata == [title |-> Absent, description |-> Absent, keywords |-> <<>>]

\* a title chain that looks at the title element before twitter:title
TitleOf_TitleElementFirst(doc) ==
    IF TruthyText(doc.og_title) THEN Some(doc.og_title.val)
    ELSE IF doc.title.some /\ Strip(doc.title.val) # <<>>
    THEN Some(Strip(doc.title.val))
    ELSE IF TruthyText(doc.twitter_title) THEN Some(doc.twitter_title.val)
    ELSE IF doc.title.some THEN Some(Strip(doc.title.val))
    ELSE Absent

\* lines 176-190: metadata["title"]
TitleOf(doc) ==
    IF TruthyText(doc.og_title) THEN Some(doc.og_title.val)
    ELSE IF TruthyText(doc.twitter_title) THEN Some(doc.twitter_title.val)
    ELSE IF doc.title.some THEN Some(Strip(doc.title.val))
    ELSE Absent

\* lines 193-201: metadata["description"]
DescriptionOf(doc) ==
    IF TruthyText(doc.og_description) THEN Some(doc.og_description.val)
    ELSE IF TruthyText(doc.description) THEN Some(doc.description.val)
    ELSE Absent

\* line 207: the items stripped, the empty ones dropped
RECURSIVE StripItems(_)
StripItems(items) ==
    IF items = <<>> THEN <<>>
    ELSE IF Strip(Head(items)) # <<>>
    THEN <<Strip(Head(items))>> \o StripItems(Tail(items))
    ELSE StripItems(Tail(items))

\* lines 204-207: metadata["keywords"]; the content is the empty string when
\* its only item is empty
KeywordsOf(doc) ==
    IF doc.keywords.some /\ doc.keywords.val # <<<<>>>>
    THEN StripItems(doc.keywords.val)
    ELSE <<>>

\* lines 168-209
extract_pinterest_metadata(doc) ==
    [title |-> TitleOf(doc), description |-> DescriptionOf(doc),
     keywords |-> KeywordsOf(doc)]

\* ------------------------------------------- download_pinterest_video
\* a src attribute or a regex match: None (no element, attribute or match),
\* the empty string, a URL not ending in .m3u8, a URL ending in .m3u8
Src == {None, "", "direct", "m3u8"}

\* Python truthiness of such a value
Truthy(x) == x \notin {None, ""}

\* the fetched page, by what lines 241-265 read of it: the src of the video
\* element with the class signature, the src of the first video element, and
\* the first match of each of the four patterns (the first two can only
\* match a URL ending in .m3u8, resp. .mp4)
Docs ==
    [class_src : Src,
     video_src : Src,
     patterns : {p \in [1..4 -> Src] : p[1] \in {None, "m3u8"} /\ p[2] \in {None, "direct"}}]

\* lines 254-265: the first pattern with a match gives its first match
RECURSIVE FirstMatch(_, _)
FirstMatch(patterns, i) ==
    IF i > Len(patterns) THEN None
    ELSE IF patterns[i] # None THEN patterns[i]
    ELSE FirstMatch(patterns, i + 1)

\* lines 238-265: the candidate-URL search
ExtractUrl(doc) ==
    IF Truthy(doc.class_src) THEN doc.class_src
    ELSE IF Truthy(doc.video_src) THEN doc.video_src
    ELSE FirstMatch(doc.patterns, 1)

\* an exception leaves download_pinterest_video for the except clause of
\* __main__, line 337
Raise(msg) ==
    /\ error' = msg
    /\ pc' = "main_except"

\* lines 218-225: short-link expansion
ExpandShort ==
    /\ pc = "dpv_short"
    /\ IF page_url # "short"
       THEN /\ pc' = "dpv_page"
            /\ UNCHANGED <<page_url, error>>
       ELSE \E t_body \in Responses, alternate \in BOOLEAN, url_param \in BOOLEAN :
            IF t_body = "raise"
            THEN Raise("exception") /\ UNCHANGED page_url
            ELSE IF t_body # "200"
            THEN Raise("Invalid URL or network error") /\ UNCHANGED page_url
            ELSE IF ~alternate \/ ~url_param
            THEN Raise("exception") /\ UNCHANGED page_url
            ELSE /\ page_url' = "canonical"
                 /\ pc' = "dpv_page"
                 /\ UNCHANGED error
    /\ UNCHANGED <<fs, argc, metaVars, gvCalled, out, exitStatus, result, gvVars, extract_url, streams,
                   dl, dlLog, mg>>

\* lines 228-268: fetch the page and search it for the candidate URL
FetchPage ==
    /\ pc = "dpv_page"
    /\ \E body \in Responses :
         IF body = "raise"
         THEN Raise("exception") /\ UNCHANGED extract_url
         ELSE IF body # "200"
         THEN Raise("Failed to fetch Pinterest page") /\ UNCHANGED extract_url
         ELSE \E doc \in Docs :
              IF ~Truthy(ExtractUrl(doc))
              THEN /\ Raise("Could not find video URL on Pinterest page")
                   /\ UNCHANGED extract_url
              ELSE /\ extract_url' = ExtractUrl(doc)
                   /\ pc' = "dpv_streams"
                   /\ UNCHANGED error
    /\ UNCHANGED <<fs, argc, metaVars, gvCalled, out, exitStatus, result, gvVars, page_url, streams,
                   dl, dlLog, mg>>

\* the orchestrator calling the resolver whatever the candidate ends in
ResolveStreams_AlwaysResolves ==
    /\ pc = "dpv_streams"
    /\ pc' = "gv_tier1"
    /\ gvCalled' = TRUE
    /\ UNCHANGED <<fs, mainVars, gvVars, page_url, extract_url, streams, dl, dlLog, mg>>

\* lines 271-278: call the resolver on a manifest URL, else take the
\* candidate as the video URL
ResolveStreams ==
    /\ pc = "dpv_streams"
    /\ IF extract_url = "m3u8"
       THEN /\ pc' = "gv_tier1"
            /\ gvCalled' = TRUE
            /\ UNCHANGED streams
       ELSE /\ streams' = Tuple3(extract_url, None, "direct")
            /\ pc' = "dpv_makedirs"
            /\ UNCHANGED gvCalled
    /\ UNCHANGED <<fs, mainVars, gvVars, page_url, extract_url, dl, dlLog, mg>>

\* lines 272-274: the resolver returned
Resolved ==
    /\ pc = "gv_return"
    /\ IF ret.video_url = None
       THEN /\ Raise("Could not find downloadable video from playlist")
            /\ UNCHANGED streams
       ELSE /\ streams' = ret
            /\ pc' = "dpv_makedirs"
            /\ UNCHANGED error
    /\ reqs' = {}
    /\ simple_status' = None
    /\ playlist_content' = NoPlaylist
    /\ lines' = <<>>
    /\ qi' = 1
    /\ audio_url' = None
    /\ video_url' = None
    /\ audioChain' = "not_run"
    /\ ret' = NoRet
    /\ retVia' = "none"
    /\ UNCHANGED <<fs, argc, metaVars, gvCalled, out, exitStatus, result, page_url, extract_url, dl,
                   dlLog, mg>>

\* lines 281-288: create the output directory, build the file names
MakeDirs ==
    /\ pc = "dpv_makedirs"
    /\ \E makedirs \in {"ok", "raise"} :
         IF makedirs = "raise" THEN Raise("exception")
         ELSE /\ pc' = IF streams.audio_url # None THEN "dpv_video" ELSE "dpv_single"
              /\ UNCHANGED error
    /\ UNCHANGED <<fs, argc, metaVars, out, exitStatus, result, gvVars, dpvVars>>

\* the orchestrator going on to the audio track whatever the video download
\* returned
DownloadVideoTrack_IgnoresFailure ==
    /\ pc = "dpv_video"
    /\ \E env \in DownloadEnvs :
         LET r == DownloadFile(fs, "video_filename", env) IN
         /\ fs' = r.fs
         /\ dl' = [filename |-> "video_filename", env |-> env, ok |-> r.ok]
    /\ pc' = "dpv_audio"
    /\ dlLog' = Append(dlLog, "video_filename")
    /\ UNCHANGED <<argc, metaVars, gvCalled, out, exitStatus, error, result, gvVars,
                   page_url, extract_url, streams, mg>>

\* lines 290-292
DownloadVideoTrack ==
    /\ pc = "dpv_video"
    /\ \E env \in DownloadEnvs :
         LET r == DownloadFile(fs, "video_filename", env) IN
         /\ fs' = r.fs
         /\ dl' = [filename |-> "video_filename", env |-> env, ok |-> r.ok]
         /\ IF ~r.ok THEN Raise("Failed to download video track")
            ELSE pc' = "dpv_audio" /\ UNCHANGED error
    /\ dlLog' = Append(dlLog, "video_filename")
    /\ UNCHANGED <<argc, metaVars, gvCalled, out, exitStatus, result, gvVars, page_url, extract_url,
                   streams, mg>>

\* the orchestrator raising on a failed audio download without deleting
\* the video temp file
DownloadAudioTrack_NoCleanup ==
    /\ pc = "dpv_audio"
    /\ \E env \in DownloadEnvs :
         LET r == DownloadFile(fs, "audio_filename", env) IN
         /\ dl' = [filename |-> "audio_filename", env |-> env, ok |-> r.ok]
         /\ fs' = r.fs
         /\ IF r.ok
            THEN pc' = "dpv_merge" /\ UNCHANGED error
            ELSE Raise("Failed to download audio track")
    /\ dlLog' = Append(dlLog, "audio_filename")
    /\ UNCHANGED <<argc, metaVars, gvCalled, out, exitStatus, result, gvVars,
                   page_url, extract_url, streams, mg>>

\* lines 294-297
DownloadAudioTrack ==
    /\ pc = "dpv_audio"
    /\ \E env \in DownloadEnvs, remove \in {"ok", "raise"} :
         LET r == DownloadFile(fs, "audio_filename", env) IN
         /\ dl' = [filename |-> "audio_filename", env |-> env, ok |-> r.ok]
         /\ IF r.ok
            THEN /\ fs' = r.fs
                 /\ pc' = "dpv_merge"
                 /\ UNCHANGED error
            ELSE IF remove = "raise"
            THEN /\ fs' = r.fs
                 /\ Raise("exception")
            ELSE /\ fs' = [r.fs EXCEPT !["video_filename"] = "absent"]
                 /\ Raise("Failed to download audio track")
    /\ dlLog' = Append(dlLog, "audio_filename")
    /\ UNCHANGED <<argc, metaVars, gvCalled, out, exitStatus, result, gvVars, page_url, extract_url,
                   streams, mg>>

\* the orchestrator treating a failed merge as a failed download: it deletes
\* the audio temp file and raises
Merge_FailureIsTerminal ==
    /\ pc = "dpv_merge"
    /\ \E env \in MergeEnvs :
         LET r == MergeVideoAudio(fs, "video_filename", "audio_filename",
                                  "final_filename", env) IN
         /\ mg' = [called |-> TRUE, env |-> env, ok |-> r.ok]
         /\ IF r.ok
            THEN /\ fs' = r.fs
                 /\ result' = "final_filename"
                 /\ pc' = "dpv_return"
                 /\ UNCHANGED error
            ELSE /\ fs' = [r.fs EXCEPT !["audio_filename"] = "absent"]
                 /\ Raise("Failed to merge")
                 /\ UNCHANGED result
    /\ UNCHANGED <<argc, metaVars, gvCalled, out, exitStatus, gvVars, page_url, extract_url,
                   streams, dl, dlLog>>

\* lines 299-304, 311
Merge ==
    /\ pc = "dpv_merge"
    /\ \E env \in MergeEnvs :
         LET r == MergeVideoAudio(fs, "video_filename", "audio_filename",
                                  "final_filename", env) IN
         /\ fs' = r.fs
         /\ mg' = [called |-> TRUE, env |-> env, ok |-> r.ok]
         /\ result' = IF r.ok THEN "final_filename" ELSE "video_filename"
    /\ pc' = "dpv_return"
    /\ UNCHANGED <<argc, metaVars, gvCalled, out, exitStatus, error, gvVars, page_url, extract_url,
                   streams, dl, dlLog>>

\* lines 307-311
DownloadSingle ==
    /\ pc = "dpv_single"
    /\ \E env \in DownloadEnvs :
         LET r == DownloadFile(fs, "final_filename", env) IN
         /\ fs' = r.fs
         /\ dl' = [filename |-> "final_filename", env |-> env, ok |-> r.ok]
         /\ IF ~r.ok
            THEN Raise("Failed to download video file") /\ UNCHANGED result
            ELSE /\ result' = "final_filename"
                 /\ pc' = "dpv_return"
                 /\ UNCHANGED error
    /\ dlLog' = Append(dlLog, "final_filename")
    /\ UNCHANGED <<argc, metaVars, gvCalled, out, exitStatus, gvVars, page_url, extract_url, streams, mg>>

\* ------------------------------------------------------------ __main__
\* a printed JSON object: the value of each key, "absent" for a key it lacks
Json(success, filePath, metadata, err) ==
    [success |-> success, filePath |-> filePath, metadata |-> metadata,
     error |-> err]

\* lines 316-320
UsageObject ==
    Json("absent", "absent", "absent",
         "Usage: python pinterest_downloader.py <url> <output_dir>")

\* lines 328-336
SuccessObject(r) == Json("true", r, "pin_metadata", "absent")

\* line 338
FailureObject(e) == Json("false", "absent", "absent", e)

\* lines 315-324
Main ==
    /\ pc = "main"
    /\ IF argc # 3
       THEN /\ out' = Append(out, UsageObject)
            /\ exitStatus' = "1"
            /\ pc' = "exited"
       ELSE /\ pc' = "dpv_short"
            /\ UNCHANGED <<out, exitStatus>>
    /\ UNCHANGED <<fs, argc, metaVars, error, result, gvVars, dpvVars>>

\* lines 327-336, and the script running off its end
PrintSuccess ==
    /\ pc = "dpv_return"
    /\ out' = Append(out, SuccessObject(result))
    /\ exitStatus' = "0"
    /\ pc' = "exited"
    /\ UNCHANGED <<fs, argc, metaVars, error, result, gvVars, dpvVars>>

\* lines 337-339
PrintFailure ==
    /\ pc = "main_except"
    /\ out' = Append(out, FailureObject(error))
    /\ exitStatus' = "1"
    /\ pc' = "exited"
    /\ UNCHANGED <<fs, argc, metaVars, error, result, gvVars, dpvVars>>

\* the call of extract_pinterest_metadata, line 235, taken alone
ExtractMetadata ==
    /\ pc = "meta_call"
    /\ pin_metadata' = extract_pinterest_metadata(soup)
    /\ pc' = "meta_done"
    /\ UNCHANGED <<fs, argc, soup, out, exitStatus, error, result, gvVars, dpvVars>>

\* ------------------------------------------------------- specification
\* the files of the output directory that bear this run's names before it
\* starts (the names are built from the clock, to the second)
Init ==
    /\ pc = "main"
    /\ argc \in 1..MaxArgc
    /\ page_url \in {"short", "canonical"}
    /\ extract_url = None
    /\ \E stale \in SUBSET File :
         fs = [f \in File |-> IF f \in stale THEN "old" ELSE "absent"]
    /\ out = <<>>
    /\ exitStatus = "running"
    /\ error = None
    /\ result = None
    /\ reqs = {}
    /\ simple_status = None
    /\ playlist_content = NoPlaylist
    /\ lines = <<>>
    /\ qi = 1
    /\ audio_url = None
    /\ video_url = None
    /\ audioChain = "not_run"
    /\ ret = NoRet
    /\ retVia = "none"
    /\ streams = NoRet
    /\ dl = NoDownload
    /\ dlLog = <<>>
    /\ mg = NoMerge
    /\ gvCalled = FALSE
    /\ soup = NoSoup
    /\ pin_metadata = NoMetadata

Next ==
    \/ Main
    \/ ExpandShort
    \/ FetchPage
    \/ ResolveStreams
    \/ Tier1
    \/ FetchManifest
    \/ FetchAudioPlaylist
    \/ AudioScan
    \/ VideoLoop
    \/ VideoScan
    \/ Mp4Scan
    \/ Assemble
    \/ Resolved
    \/ MakeDirs
    \/ DownloadVideoTrack
    \/ DownloadAudioTrack
    \/ Merge
    \/ DownloadSingle
    \/ PrintSuccess
    \/ PrintFailure

Spec == Init /\ [][Next]_vars

\* extract_pinterest_metadata as a function of the document: every document
\* of Soups is given to it.  (Spec carries the metadata of line 235 as the
\* opaque value "pin_metadata" of SuccessObject.)
InitMetadata ==
    /\ pc = "meta_call"
    /\ soup \in Soups
    /\ pin_metadata = NoMetadata
    /\ argc = 3
    /\ page_url = "canonical"
    /\ extract_url = None
    /\ fs = [f \in File |-> "absent"]
    /\ out = <<>>
    /\ exitStatus = "running"
    /\ error = None
    /\ result = None
    /\ reqs = {}
    /\ simple_status = None
    /\ playlist_content = NoPlaylist
    /\ lines = <<>>
    /\ qi = 1
    /\ audio_url = None
    /\ video_url = None
    /\ audioChain = "not_run"
    /\ ret = NoRet
    /\ retVia = "none"
    /\ streams = NoRet
    /\ dl = NoDownload
    /\ dlLog = <<>>
    /\ mg = NoMerge
    /\ gvCalled = FALSE

NextMetadata == ExtractMetadata

SpecMetadata == InitMetadata /\ [][NextMetadata]_vars

\* ---------------------------------------------------------------- claims
\* the qualities whose sub-manifest the running resolver call has fetched
Fetched == {q \in Quality : GetStream(q) \in reqs}

\* the video chain of Tiers 2 and 3 was carried through: every quality whose
\* marker is in the manifest had its sub-manifest fetched, and an http .mp4
\* line of the manifest, if there is one, was existence-checked
VideoChainExhausted ==
    /\ \A q \in playlist_content.markers : GetStream(q) \in reqs
    /\ (\E i \in 1..Len(playlist_content.lines) :
            playlist_content.lines[i] = "http_mp4") => HeadMp4Line \in reqs

\* C1: once Tier 1's existence check has answered success, the call has
\* returned (rewritten URL, no audio, "simple") and the existence check is
\* the only request it issued: the manifest was not fetched, no sub-manifest
\* was fetched, no further existence check was made.
C1_Tier1ShortCircuit ==
    simple_status = "200" =>
        /\ pc = "gv_return"
        /\ ret = Tuple3("simple_convert_url", None, "simple")
        /\ reqs = {HeadSimple}

C1_Witness ==
    /\ pc = "gv_return"
    /\ simple_status = "200"
    /\ ret.method = "simple"

\* C2: every result the resolver returns has method "failed" exactly when it
\* has no video URL, has no audio URL without a video URL, and, when the
\* video URL comes from Tier 2 or 3, has method "hls_separate" exactly when
\* it has an audio URL and "hls_video_only" exactly when it has none.
C2_ResultInvariant ==
    pc = "gv_return" =>
        /\ ret.method = "failed" <=> ret.video_url = None
        /\ ret.audio_url # None => ret.video_url # None
        /\ ret.video_url \in {"video_file_url", "line"} =>
               /\ ret.method = "hls_separate" <=> ret.audio_url # None
               /\ ret.method = "hls_video_only" <=> ret.audio_url = None

\* the resolver ends with no video URL although its audio chain found one
C2_Witness ==
    /\ pc = "gv_return"
    /\ audio_url = "audio_file_url"
    /\ video_url = None
    /\ retVia = "line 88"
    /\ ret.method = "failed"

SuccessShape(o) ==
    /\ o.success = "true"
    /\ o.filePath # "absent"
    /\ o.metadata # "absent"
    /\ o.error = "absent"

FailureShape(o) ==
    /\ o.success = "false"
    /\ o.error # "absent"
    /\ o.filePath = "absent"
    /\ o.metadata = "absent"

\* C4: every invocation prints exactly one object, of the success shape or
\* of the failure shape, exits with the failure status exactly when it
\* printed the failure shape, and never prints a second object.
C4_OneResultOfEitherShape ==
    /\ Len(out) <= 1
    /\ pc = "exited" =>
           /\ Len(out) = 1
           /\ SuccessShape(out[1]) \/ FailureShape(out[1])
           /\ exitStatus = "1" <=> FailureShape(out[1])

\* the bytes a download_file call wrote to its destination
Written(env) ==
    IF env.response = "200" /\ env.open = "ok" THEN BytesWritten(env.chunks) ELSE 0

\* C5 as stated: a download_file call whose response had status 200 and that
\* wrote zero bytes returned failure and left no file at its destination.
C5_Original ==
    (dl.filename # None /\ dl.env.response = "200" /\ Written(dl.env) = 0) =>
        /\ ~dl.ok
        /\ fs[dl.filename] = "absent"

\* C5 as amended: such a call returned failure, and left no file at its
\* destination when no exception was raised inside it.
C5_ZeroBytesRemoved ==
    (dl.filename # None /\ dl.env.response = "200" /\ Written(dl.env) = 0) =>
        /\ ~dl.ok
        /\ ~DownloadRaised(dl.env) => fs[dl.filename] = "absent"

\* the body was streamed to its end, in empty chunks only
C5_Witness ==
    /\ dl.filename # None
    /\ dl.env.response = "200"
    /\ dl.env.chunks # <<>>
    /\ Written(dl.env) = 0
    /\ ~DownloadRaised(dl.env)
    /\ ~dl.ok
    /\ fs[dl.filename] = "absent"

\* C6: a merge_video_audio call whose version probe exited 0 and whose mux
\* command exited nonzero returns failure and changes neither input file,
\* both of which are present.
C6_NonzeroExitKeepsInputs ==
    [][(pc = "dpv_merge" /\ mg'.env.probe = "0" /\ mg'.env.mux = "1") =>
          /\ ~mg'.ok
          /\ fs'["video_filename"] = fs["video_filename"]
          /\ fs'["audio_filename"] = fs["audio_filename"]
          /\ fs["video_filename"] = "data"
          /\ fs["audio_filename"] = "data"]_vars

C6_Witness ==
    /\ mg.called
    /\ mg.env.probe = "0"
    /\ mg.env.mux = "1"
    /\ ~mg.ok
    /\ fs["video_filename"] = "data"
    /\ fs["audio_filename"] = "data"

\* C7: after a failed merge of the two downloaded temp files the operation
\* returns the video temp file as its filePath, the program prints the
\* success shape with it and exits 0, and the audio temp file is on disk.
C7_MuxFailureDegrades ==
    (mg.called /\ ~mg.ok) =>
        /\ dlLog = <<"video_filename", "audio_filename">>
        /\ pc \in {"dpv_return", "exited"}
        /\ result = "video_filename"
        /\ fs["audio_filename"] = "data"
        /\ pc = "exited" =>
               out = <<SuccessObject("video_filename")>> /\ exitStatus = "0"

C7_Witness ==
    /\ pc = "exited"
    /\ mg.called
    /\ ~mg.ok
    /\ out = <<SuccessObject("video_filename")>>
    /\ fs["audio_filename"] = "data"

\* C8: in the two-track flow (the resolver returned a video and an audio
\* URL by "hls_separate"), after both downloads and a successful merge the
\* filePath is the final name and neither temp file is on disk.
C8_MuxSuccessCleansUp ==
    (mg.called /\ mg.ok) =>
        /\ streams.method = "hls_separate"
        /\ dlLog = <<"video_filename", "audio_filename">>
        /\ result = "final_filename"
        /\ fs["video_filename"] = "absent"
        /\ fs["audio_filename"] = "absent"
        /\ pc = "exited" => out = <<SuccessObject("final_filename")>>

C8_Witness ==
    /\ pc = "exited"
    /\ mg.called
    /\ mg.ok
    /\ streams.method = "hls_separate"
    /\ out = <<SuccessObject("final_filename")>>

\* the first quality of quality_order whose marker is in the manifest
FirstPresent(q) ==
    /\ q \in playlist_content.markers
    /\ \A i, j \in 1..Len(quality_order) :
         (quality_order[j] = q /\ i < j) =>
             quality_order[i] \notin playlist_content.markers

\* C9 as stated: the only sub-manifest Tier 2 ever fetches is that of the
\* first quality whose marker is in the manifest.
C9_Original ==
    \A q \in Fetched : FirstPresent(q)

\* C9 as amended: Tier 2 fetches the sub-manifests of the qualities whose
\* marker is in the manifest, in the order of quality_order, one after the
\* other; it fetches none after the one that yielded the video URL; and it
\* is left without a video URL (for Tier 3) only when every quality whose
\* marker is in the manifest was fetched.
C9_QualitiesTriedInOrder ==
    /\ \A i, j \in 1..Len(quality_order) :
         (i < j /\ quality_order[j] \in Fetched) =>
             (quality_order[i] \in Fetched <=>
                  quality_order[i] \in playlist_content.markers)
    /\ Fetched \subseteq playlist_content.markers
    /\ video_url = "video_file_url" =>
           \A j \in 1..Len(quality_order) :
               quality_order[j] \in Fetched => j <= qi
    /\ (pc \in {"gv_mp4_scan", "gv_assemble"} /\ video_url # "video_file_url") =>
           Fetched = playlist_content.markers

\* a lower quality yielded the video URL after a higher one yielded nothing
C9_Witness ==
    /\ Cardinality(Fetched) >= 2
    /\ video_url = "video_file_url"
    /\ pc = "gv_assemble"

\* C10 as stated: Tier 3 runs only while Tier 2 left no video URL, and a
\* result whose video URL Tier 3 found has no audio URL.
C10_Original ==
    /\ pc = "gv_mp4_scan" => video_url = None
    /\ HeadMp4Line \in reqs => video_url \in {None, "line"}
    /\ (pc = "gv_return" /\ ret.video_url = "line") => ret.audio_url = None

\* C10 as amended: Tier 3 runs only while Tier 2 left no video URL, and a
\* result whose video URL Tier 3 found carries the audio URL of Tier 2's
\* audio chain with method "hls_separate" if that chain found one, and no
\* audio URL with method "hls_video_only" if it found none.
C10_Tier3KeepsAudio ==
    /\ pc = "gv_mp4_scan" => video_url = None
    /\ HeadMp4Line \in reqs => video_url \in {None, "line"}
    /\ (pc = "gv_return" /\ ret.video_url = "line") =>
           IF audioChain = "found"
           THEN ret = Tuple3("line", "audio_file_url", "hls_separate")
           ELSE ret = Tuple3("line", None, "hls_video_only")

C10_Witness ==
    /\ pc = "gv_return"
    /\ audioChain = "found"
    /\ ret = Tuple3("line", "audio_file_url", "hls_separate")

\* C11 as stated: the title is og:title's content when og:title is present,
\* whatever the other two are, and twitter:title's content when og:title is
\* absent and twitter:title is present, whatever the title element is.  (An
\* absent title and an empty one are not told apart here.)
C11_Original ==
    pc = "meta_done" =>
        /\ soup.og_title.some => pin_metadata.title.val = soup.og_title.val
        /\ (~soup.og_title.some /\ soup.twitter_title.some) =>
               pin_metadata.title.val = soup.twitter_title.val

\* C11 as amended: the title is og:title's content when that content is a
\* non-empty string; else twitter:title's content when that is a non-empty
\* string, whatever the title element is; else the stripped text of the
\* title element when there is one; else absent.
C11_TitleChain ==
    pc = "meta_done" =>
        /\ TruthyText(soup.og_title) => pin_metadata.title = soup.og_title
        /\ (~TruthyText(soup.og_title) /\ TruthyText(soup.twitter_title)) =>
               pin_metadata.title = soup.twitter_title
        /\ (~TruthyText(soup.og_title) /\ ~TruthyText(soup.twitter_title)) =>
               /\ pin_metadata.title.some <=> soup.title.some
               /\ pin_metadata.title.val = Strip(soup.title.val)
        /\ pin_metadata.title.val # <<>> =>
               /\ Head(pin_metadata.title.val) # " "
               /\ pin_metadata.title.val[Len(pin_metadata.title.val)] # " "

\* no og:title, a twitter:title, and a title element with a text of its own
C11_Witness ==
    /\ pc = "meta_done"
    /\ ~soup.og_title.some
    /\ soup.twitter_title = Some(<<"t">>)
    /\ soup.title = Some(<<"e">>)
    /\ pin_metadata.title = Some(<<"t">>)

\* the operation ended in failure: the exception is on its way to, or was
\* printed by, the except clause of __main__
Failed ==
    /\ pc \in {"main_except", "exited"}
    /\ error # None
    /\ pc = "exited" => out = <<FailureObject(error)>> /\ exitStatus = "1"

\* the last download_file call was for the audio track and returned failure
AudioDownloadFailed == dl.filename = "audio_filename" /\ ~dl.ok

\* C12 as stated: the audio track is requested only after the video track;
\* a failed video download ends the operation in failure with the audio
\* track never requested; a failed audio download ends it in failure with
\* the video temp file gone from the disk.
C12_Original ==
    /\ dlLog \in {<<>>, <<"final_filename">>, <<"video_filename">>,
                  <<"video_filename", "audio_filename">>}
    /\ (dl.filename = "video_filename" /\ ~dl.ok) =>
           Failed /\ dlLog = <<"video_filename">>
    /\ AudioDownloadFailed => Failed /\ fs["video_filename"] = "absent"

\* C12 as amended: as stated, but after a failed audio download the video
\* temp file is gone only if its removal did not raise; if it raised, the
\* operation still ends in failure (with that exception's message) and the
\* video temp file stays.
C12_TrackOrderAndCleanup ==
    /\ dlLog \in {<<>>, <<"final_filename">>, <<"video_filename">>,
                  <<"video_filename", "audio_filename">>}
    /\ (dl.filename = "video_filename" /\ ~dl.ok) =>
           /\ Failed
           /\ error = "Failed to download video track"
           /\ dlLog = <<"video_filename">>
    /\ AudioDownloadFailed =>
           /\ Failed
           /\ error \in {"Failed to download audio track", "exception"}
           /\ error = "Failed to download audio track" =>
                  fs["video_filename"] = "absent"
           /\ error = "exception" => fs["video_filename"] = "data"

C12_Witness ==
    /\ pc = "exited"
    /\ AudioDownloadFailed
    /\ dlLog = <<"video_filename", "audio_filename">>
    /\ error = "Failed to download audio track"
    /\ fs["video_filename"] = "absent"

\* the place of each position in the order ResolvingPage (1),
\* ExtractingCandidate (3), ResolvingStreams (4-11), Downloading (12-14),
\* Muxing (15), Done or Failed (16)
PcRank(p) ==
    CASE p = "main" -> 0
      [] p = "dpv_short" -> 1
      [] p = "dpv_page" -> 3
      [] p = "dpv_streams" -> 4
      [] p = "gv_tier1" -> 5
      [] p = "gv_manifest" -> 6
      [] p = "gv_audio_get" -> 7
      [] p = "gv_audio_scan" -> 8
      [] p \in {"gv_video_loop", "gv_video_scan"} -> 9
      [] p = "gv_mp4_scan" -> 10
      [] p \in {"gv_assemble", "gv_return"} -> 11
      [] p = "dpv_makedirs" -> 12
      [] p \in {"dpv_video", "dpv_single"} -> 13
      [] p = "dpv_audio" -> 14
      [] p = "dpv_merge" -> 15
      [] p \in {"dpv_return", "main_except"} -> 16
      [] p = "exited" -> 17

\* the loops of the resolver, whose iterations stay at one position
Looping(p) ==
    p \in {"gv_audio_scan", "gv_video_loop", "gv_video_scan", "gv_mp4_scan", "gv_assemble"}

\* C13: the positions are passed in the order of the stages and none of the
\* orchestrator's is passed twice; a download is started only with a video
\* URL from stream resolution; the audio download is started only after the
\* video download returned success, and merge_video_audio is called only
\* after the audio download returned success too, never in the single-file
\* flow.
C13_StepOrder ==
    [][/\ PcRank(pc') >= PcRank(pc)
       /\ (pc' # pc /\ ~Looping(pc)) => PcRank(pc') > PcRank(pc)
       /\ dlLog' # dlLog =>
              /\ Truthy(streams.video_url)
              /\ pc \in {"dpv_video", "dpv_audio", "dpv_single"}
       /\ (pc' = "dpv_audio" /\ pc # "dpv_audio") =>
              /\ pc = "dpv_video"
              /\ dl' = [filename |-> "video_filename", env |-> dl'.env, ok |-> TRUE]
       /\ (pc' = "dpv_merge" /\ pc # "dpv_merge") =>
              /\ pc = "dpv_audio"
              /\ dl' = [filename |-> "audio_filename", env |-> dl'.env, ok |-> TRUE]
       /\ mg' # mg =>
              /\ pc = "dpv_merge"
              /\ dlLog = <<"video_filename", "audio_filename">>
              /\ fs["video_filename"] = "data"
              /\ fs["audio_filename"] = "data"
              /\ streams.audio_url # None]_vars

C13_Witness ==
    /\ pc = "dpv_merge"
    /\ dlLog = <<"video_filename", "audio_filename">>
    /\ dl.ok

\* C14: a merge_video_audio call whose version probe exits nonzero or cannot
\* be launched does not run the mux command: it returns failure and leaves
\* the whole file system as it was, the two inputs present and no output
\* written.
C14_ProbeFailureSkipsMux ==
    [][(pc = "dpv_merge" /\ mg'.env.probe # "0") =>
          /\ mg'.called
          /\ ~MuxInvoked(mg'.env)
          /\ ~mg'.ok
          /\ fs' = fs
          /\ fs'["video_filename"] = "data"
          /\ fs'["audio_filename"] = "data"
          /\ result' = "video_filename"]_vars

\* the probe exited nonzero where the mux command would have exited 0
C14_Witness ==
    /\ mg.called
    /\ mg.env.probe = "1"
    /\ mg.env.mux = "0"
    /\ ~mg.ok
    /\ fs["final_filename"] = "absent"
    /\ fs["video_filename"] = "data"
    /\ fs["audio_filename"] = "data"

\* both inputs of the merge_video_audio call are on disk
InputsPresent ==
    fs["video_filename"] # "absent" /\ fs["audio_filename"] # "absent"

\* an exception was raised inside the merge_video_audio call: launching the
\* probe or the mux command raised, or one of the two os.remove calls did
MergeRaised(env) ==
    \/ env.probe = "raise"
    \/ env.probe = "0" /\ env.mux = "raise"
    \/ env.probe = "0" /\ env.mux = "0" /\ env.rm_video = "raise"
    \/ env.probe = "0" /\ env.mux = "0" /\ env.rm_video = "ok" /\ env.rm_audio = "raise"

\* C15: after a merge_video_audio call that returned failure because an
\* exception was raised inside it, both input files are on disk.
C15_ExceptionKeepsInputs ==
    (mg.called /\ ~mg.ok /\ MergeRaised(mg.env)) => InputsPresent

NoVideoMessage == "Could not find downloadable video from playlist"

\* C16: with a candidate that does not end in .m3u8 the resolver is never
\* called and issues no request, the candidate is the video URL with no
\* audio URL, the only download ever made goes to the final path and a
\* returned result rests on exactly that one, the two temp paths are never
\* written and merge_video_audio is never called; with a candidate ending in
\* .m3u8 for which the resolver returns no video URL, the operation fails
\* with no download started and the file system untouched.
C16_DirectAndUnresolved ==
    [][/\ extract_url' = "direct" =>
              /\ ~gvCalled' /\ reqs' = {}
              /\ ~mg'.called
              /\ dlLog' \in {<<>>, <<"final_filename">>}
              /\ fs'["video_filename"] = fs["video_filename"]
              /\ fs'["audio_filename"] = fs["audio_filename"]
              /\ PcRank(pc') >= 12 /\ pc' # "main_except" =>
                     streams' = Tuple3(extract_url', None, "direct")
              /\ pc' = "dpv_return" =>
                     dlLog' = <<"final_filename">> /\ result' = "final_filename"
       /\ extract_url' = "m3u8" /\ PcRank(pc') >= 5 => gvCalled'
       /\ (pc = "gv_return" /\ ret.video_url = None) =>
              /\ pc' = "main_except"
              /\ error' = NoVideoMessage
       /\ error' = NoVideoMessage =>
              /\ Failed'
              /\ dlLog' = <<>>
              /\ fs' = fs]_vars

\* the direct download was made
C16_Witness ==
    /\ extract_url = "direct"
    /\ pc = "dpv_return"
    /\ dlLog = <<"final_filename">>
    /\ streams = Tuple3("direct", None, "direct")

\* C17: a download_file call answered with a non-success status returns
\* failure and leaves the file system as it was, its destination included
\* (the caller's removal of the video temp file after a failed audio
\* download is not download_file's).
C17_NonSuccessStatusTouchesNothing ==
    [][(dlLog' # dlLog /\ dl'.env.response = "404") =>
          /\ ~dl'.ok
          /\ fs'[dl'.filename] = fs[dl'.filename]
          /\ dl'.filename # "audio_filename" => fs' = fs
          /\ dl'.filename = "audio_filename" =>
                 fs'["final_filename"] = fs["final_filename"]]_vars

\* a file that was at the destination before the run is still there
C17_Witness ==
    /\ dl.filename # None
    /\ dl.env.response = "404"
    /\ ~dl.ok
    /\ fs[dl.filename] = "old"

\* C18: the filePath that download_pinterest_video returns names a file
\* that is on disk.
C18_ReturnedFileExists ==
    pc = "dpv_return" => fs[result] = "data"

GvPcs ==
    {"gv_tier1", "gv_manifest", "gv_audio_get", "gv_audio_scan", "gv_video_loop",
     "gv_video_scan", "gv_mp4_scan", "gv_assemble"}

\* C19: the resolver is left through its return only; an exception raised
\* by any of its requests makes it return (None, None, "failed"), whatever
\* it had found, and the orchestrator then fails with "Could not find
\* downloadable video from playlist", no download started and the file
\* system untouched.
C19_ResolverSwallowsExceptions ==
    [][/\ pc \in GvPcs => pc' \in GvPcs \cup {"gv_return"}
       /\ retVia' = "except" =>
              /\ pc' = "gv_return"
              /\ ret' = Tuple3(None, None, "failed")
       /\ (pc = "gv_return" /\ retVia = "except") =>
              /\ pc' = "main_except"
              /\ error' = NoVideoMessage
              /\ dlLog' = <<>>
              /\ fs' = fs
       /\ (pc = "main_except" /\ error = NoVideoMessage) =>
              /\ out' = <<FailureObject(NoVideoMessage)>>
              /\ dlLog' = <<>>]_vars

\* a request raised after the audio URL had been found
C19_Witness ==
    /\ pc = "gv_return"
    /\ retVia = "except"
    /\ audio_url = "audio_file_url"
    /\ ret = Tuple3(None, None, "failed")

====
